---- MODULE Spec2Model ----
(***************************************************************************)
(* GPclust/OMGP.py: the OMGP model (overlapping mixture of Gaussian        *)
(* processes).                                                             *)
(*                                                                         *)
(*   Spec        the object (kernel list, K, registered parameters,        *)
(*               variance gradient) under all of its operations, with      *)
(*               consistent data and a library that never fails            *)
(*   SpecReg     construction, changes of K and do_computations            *)
(*   SpecFaults  the computations, any decomposition of which may fail     *)
(*   SpecDims    the computations on X and Y of any numbers of rows        *)
(*   SpecNum     the arithmetic of the precision entries, of the natural   *)
(*               gradient and of predict, in exact rationals extended      *)
(*               with inf and nan (rounding and signed zeros are not       *)
(*               modelled)                                                 *)
(***************************************************************************)
EXTENDS Integers, Sequences, FiniteSets, TLC

VARIABLES
    nX,       \* number of rows of self.X
    nY,       \* number of rows of self.Y (N of line 16)
    K,        \* self.K: the number of columns of phi
    kern,     \* self.kern: sequence of kernel objects [id, theta]
    linked,   \* ids of the kernel objects registered as parameters
    varGrad,  \* self.variance.gradient
    trace,    \* trace[i]: 0.5*trace(dL_dB . grad_B_inv) of component i (line 81)
    faulty,   \* whether the linear-algebra library meets matrices it cannot decompose
    last,     \* the last operation: its name, the calls it made, what it raised
    inp,      \* SpecNum: the arrays an arithmetic routine is applied to
    out       \* SpecNum: what the routine computed

objvars == <<nX, nY, K, kern, linked, varGrad, trace, faulty, last>>
numvars == <<inp, out>>
vars == <<nX, nY, K, kern, linked, varGrad, trace, faulty, last, inp, out>>

\* ------------------------------------------------------------------ bounds
MaxK == 3
MaxN == 2
MaxContrib == 2
NumPts == 2
NumComps == 2

\* hyperparameter settings of a kernel: the RBF default and another
Thetas == {"default", "other"}
Contribs == 1..MaxContrib

\* ----------------------------------------------------------------- helpers
RECURSIVE SumTo(_, _)
SumTo(c, j) == IF j = 0 THEN 0 ELSE c[j] + SumTo(c, j - 1)

\* the calls of a loop: those of its iterations, in order
RECURSIVE Flatten(_)
Flatten(seqs) == IF seqs = <<>> THEN <<>> ELSE Head(seqs) \o Flatten(Tail(seqs))

KernIds(ks) == {ks[j].id : j \in 1..Len(ks)}

\* kern.copy(): a new object, distinct from every live one, same hyperparameters
FreshId(live) ==
    CHOOSE i \in 1..(Cardinality(live) + 1) :
        i \notin live /\ \A j \in 1..(i - 1) : j \in live

KernCopy(k, live) == [id |-> FreshId(live), theta |-> k.theta]

\* -------------------------------------------------------------- the calls
Call(c, i) == [call |-> c, comp |-> i, ok |-> TRUE]

\* the library calls that raise on a matrix they cannot decompose
MayFail == {"cho_factor", "solve", "pdinv"}

\* K (nX x nX) + B_inv (nY x nY): numpy broadcasting
Broadcastable == nX = nY \/ nX = 1 \/ nY = 1
SumRows == IF nX > nY THEN nX ELSE nY

\* what call s raises; numFail: the library finds the matrix undecomposable
StepError(s, numFail) ==
    CASE s.call = "phi_col" ->
           IF s.comp > K \/ s.comp < 1 THEN "IndexError" ELSE "ok"
      [] s.call = "kern_item" ->
           IF s.comp > Len(kern) \/ s.comp < 1 THEN "IndexError" ELSE "ok"
      [] s.call = "K_plus_B_inv" ->
           IF Broadcastable THEN "ok" ELSE "ValueError"
      [] s.call = "cho_factor" ->
           IF numFail THEN "LinAlgError" ELSE "ok"
      [] s.call = "pdinv" ->
           IF numFail THEN "LinAlgError" ELSE "ok"
      [] s.call \in {"cho_solve", "solve"} ->
           IF numFail /\ s.call = "solve" THEN "LinAlgError"
           ELSE IF SumRows # nY THEN "ValueError" ELSE "ok"
      [] s.call \in {"kern_K_X_Xnew", "kern_K_Xnew_Xnew"} ->
           IF s.ok THEN "ok" ELSE "ValueError"
      [] OTHER -> "ok"

\* Python runs the calls in order; the first exception ends the operation
\* and is what the caller gets (OMGP.py has no try/except).  raised: the
\* calls (by position) that raised
RECURSIVE RunFrom(_, _, _, _)
RunFrom(steps, f, i, calls) ==
    IF i > Len(steps) THEN [calls |-> calls, raised |-> <<>>, result |-> "ok"]
    ELSE LET e == StepError(steps[i], i = f)
         IN  IF e # "ok"
             THEN [calls |-> Append(calls, steps[i]),
                   raised |-> << Len(calls) + 1 >>, result |-> e]
             ELSE RunFrom(steps, f, i + 1, Append(calls, steps[i]))

\* an operation that catches a decomposition failure and decomposes again
RECURSIVE RetryFrom(_, _, _, _, _)
RetryFrom(steps, f, i, calls, raised) ==
    IF i > Len(steps) THEN [calls |-> calls, raised |-> raised, result |-> "ok"]
    ELSE LET e == StepError(steps[i], i = f)
             made == Append(calls, steps[i])
         IN  IF e = "LinAlgError"
             THEN RetryFrom(steps, f, i + 1, Append(made, steps[i]),
                            Append(raised, Len(made)))
             ELSE IF e # "ok"
             THEN [calls |-> made, raised |-> Append(raised, Len(made)),
                   result |-> e]
             ELSE RetryFrom(steps, f, i + 1, made, raised)

RunWithRetry(steps, f) == RetryFrom(steps, f, 1, <<>>, <<>>)

Run(steps, f) == RunFrom(steps, f, 1, <<>>)

\* the step (0: none) at which the library fails numerically
FailPoints(steps) ==
    {0} \cup {i \in 1..Len(steps) : faulty /\ steps[i].call \in MayFail}

Done(op, r, arg) ==
    [op |-> op, calls |-> r.calls, raised |-> r.raised, result |-> r.result,
     arg |-> arg]

Quiet(op, result, arg) ==
    [op |-> op, calls |-> <<>>, raised |-> <<>>, result |-> result, arg |-> arg]

NoArrays == [op |-> "none"]

\* ------------------------------------------------------------ arithmetic
\* numpy's float64 values, taken exactly: a rational n/d with d > 0, and
\* n/0 for +inf (n = 1), -inf (n = -1) and nan (n = 0)
RECURSIVE GCD(_, _)
GCD(a, b) == IF b = 0 THEN a ELSE GCD(b, a % b)

Abs(x) == IF x < 0 THEN 0 - x ELSE x
Sign(x) == IF x < 0 THEN 0 - 1 ELSE IF x > 0 THEN 1 ELSE 0

Norm(n, d) ==
    IF d = 0 THEN [n |-> Sign(n), d |-> 0]
    ELSE LET g == GCD(Abs(n), Abs(d))
         IN  [n |-> (Sign(d) * n) \div g, d |-> Abs(d) \div g]

Rat(n, d) == Norm(n, d)
Zero == [n |-> 0, d |-> 1]
One == [n |-> 1, d |-> 1]
NaN == [n |-> 0, d |-> 0]

\* the floor 1e-6 of lines 75, 79, 94, 119, 126
Floor == [n |-> 1, d |-> 1000000]

IsNaN(x) == x.d = 0 /\ x.n = 0
IsFinite(x) == x.d # 0
IsZero(x) == x.d # 0 /\ x.n = 0

FNeg(x) == [n |-> 0 - x.n, d |-> x.d]

FAdd(x, y) ==
    IF IsNaN(x) \/ IsNaN(y) THEN NaN
    ELSE IF x.d = 0 /\ y.d = 0 THEN (IF x.n = y.n THEN x ELSE NaN)
    ELSE IF x.d = 0 THEN x
    ELSE IF y.d = 0 THEN y
    ELSE Norm(x.n * y.d + y.n * x.d, x.d * y.d)

FSub(x, y) == FAdd(x, FNeg(y))

FMul(x, y) ==
    IF IsNaN(x) \/ IsNaN(y) THEN NaN
    ELSE IF x.d = 0 \/ y.d = 0
         THEN (IF x.n = 0 \/ y.n = 0 THEN NaN
               ELSE [n |-> Sign(x.n) * Sign(y.n), d |-> 0])
    ELSE Norm(x.n * y.n, x.d * y.d)

\* x / y of numpy arrays: a division by zero gives inf or nan, and a
\* warning, not an exception
FDiv(x, y) ==
    IF IsNaN(x) \/ IsNaN(y) THEN NaN
    ELSE IF y.d = 0 THEN (IF x.d = 0 THEN NaN ELSE Zero)
    ELSE IF y.n = 0 THEN (IF x.n = 0 THEN NaN ELSE [n |-> Sign(x.n), d |-> 0])
    ELSE IF x.d = 0 THEN [n |-> Sign(x.n) * Sign(y.n), d |-> 0]
    ELSE Norm(x.n * y.d, x.d * y.n)

\* |x| > |y|
AbsGreater(x, y) ==
    IF IsNaN(x) \/ IsNaN(y) THEN FALSE
    ELSE IF x.d = 0 THEN y.d # 0
    ELSE IF y.d = 0 THEN FALSE
    ELSE Abs(x.n) * y.d > Abs(y.n) * x.d

RECURSIVE DotTo(_, _, _)
DotTo(u, v, j) == IF j = 0 THEN Zero ELSE FAdd(DotTo(u, v, j - 1), FMul(u[j], v[j]))

Dot(u, v, n) == DotTo(u, v, n)

\* --------------------------------------------- the precision entries B_inv
\* line 94 (bound), line 75 (update_kern_grads, variance gradient),
\* line 119 (vb_grad_natgrad): 1. / ((phi + 1e-6) / variance)
BInvFloored(phi_n, variance) == FDiv(One, FDiv(FAdd(phi_n, Floor), variance))

\* line 59 (update_kern_grads, kernel gradients) and line 145 (predict):
\* 1. / (phi / variance)
BInvUnfloored(phi_n, variance) == FDiv(One, FDiv(phi_n, variance))

\* line 79: 1. / (phi + 1e-6)
GradBInv(phi_n) == FDiv(One, FAdd(phi_n, Floor))

\* line 126: -variance / (phi ** 2 + 1e-6)
GradBInvNat(phi_n, variance) ==
    FDiv(FNeg(variance), FAdd(FMul(phi_n, phi_n), Floor))

BInvBound(phicol, variance) ==
    << [n \in DOMAIN phicol |-> BInvFloored(phicol[n], variance)] >>

BInvUpdateKernGrads(phicol, variance) ==
    << [n \in DOMAIN phicol |-> BInvUnfloored(phicol[n], variance)],
       [n \in DOMAIN phicol |-> BInvFloored(phicol[n], variance)],
       [n \in DOMAIN phicol |-> GradBInv(phicol[n])] >>

BInvVbGradNatgrad(phicol, variance) ==
    << [n \in DOMAIN phicol |-> BInvFloored(phicol[n], variance)],
       [n \in DOMAIN phicol |-> GradBInvNat(phicol[n], variance)] >>

\* a precision built without the reciprocal
BInvInverted(phi_n, variance) == FDiv(phi_n, variance)

\* line 145
BInvPredict(phi_n, variance) == BInvUnfloored(phi_n, variance)

\* ------------------------------------------------- vb_grad_natgrad 131-132
RowDot(phi, g, n, k) == DotTo(phi[n], g[n], k)

\* a projection that subtracts the plain row sum of grad_phi
NatgradPlainSum(phi, grad_phi, k) ==
    [n \in DOMAIN phi |->
        [j \in 1..k |->
            FSub(grad_phi[n][j],
                 DotTo([i \in 1..k |-> One], grad_phi[n], k))]]

\* line 131: natgrad = grad_phi - np.sum(phi * grad_phi, 1)[:, None]
Natgrad(phi, grad_phi, k) ==
    [n \in DOMAIN phi |->
        [j \in 1..k |-> FSub(grad_phi[n][j], RowDot(phi, grad_phi, n, k))]]

\* line 132: grad = natgrad * phi
Grad(phi, natgrad, k) ==
    [n \in DOMAIN phi |-> [j \in 1..k |-> FMul(natgrad[n][j], phi[n][j])]]

\* --------------------------------------------------- np.linalg.solve (LU)
\* the first row, from k down, whose entry in column k is largest in size
PivotRow(A, k, n) ==
    CHOOSE p \in k..n :
        /\ \A r \in k..n : ~AbsGreater(A[r][k], A[p][k])
        /\ \A r \in k..(p - 1) : AbsGreater(A[p][k], A[r][k])

SwapRows(M, k, p) == [M EXCEPT ![k] = M[p], ![p] = M[k]]

\* LAPACK gesv: elimination with partial pivoting; a zero pivot is numpy's
\* LinAlgError("Singular matrix")
RECURSIVE Eliminate(_, _, _, _)
Eliminate(A, b, k, n) ==
    IF k > n THEN [A |-> A, b |-> b, result |-> "ok"]
    ELSE LET p == PivotRow(A, k, n)
             A1 == SwapRows(A, k, p)
             b1 == SwapRows(b, k, p)
             m(r) == FDiv(A1[r][k], A1[k][k])
             A2 == [r \in 1..n |->
                      IF r <= k THEN A1[r]
                      ELSE [c \in 1..n |->
                              IF c <= k THEN A1[r][c]
                              ELSE FSub(A1[r][c], FMul(m(r), A1[k][c]))]]
             b2 == [r \in 1..n |->
                      IF r <= k THEN b1[r] ELSE FSub(b1[r], FMul(m(r), b1[k]))]
         IN  IF IsZero(A1[k][k])
             THEN [A |-> A, b |-> b, result |-> "LinAlgError"]
             ELSE Eliminate(A2, b2, k + 1, n)

RECURSIVE TailDot(_, _, _, _, _)
TailDot(A, x, i, j, n) ==
    IF j > n THEN Zero ELSE FAdd(FMul(A[i][j], x[j]), TailDot(A, x, i, j + 1, n))

RECURSIVE BackSubstitute(_, _, _, _, _)
BackSubstitute(A, b, x, i, n) ==
    IF i = 0 THEN x
    ELSE LET xi == FDiv(FSub(b[i], TailDot(A, x, i, i + 1, n)), A[i][i])
         IN  BackSubstitute(A, b, [x EXCEPT ![i] = xi], i - 1, n)

Solve(A, b, n) ==
    LET e == Eliminate(A, b, 1, n)
    IN  IF e.result # "ok" THEN [result |-> e.result, x |-> b]
        ELSE [result |-> "ok",
              x |-> BackSubstitute(e.A, e.b, [i \in 1..n |-> Zero], n, n)]

\* ------------------------------------------------------ predict 140-152
\* K + B_inv, lines 145-146
KPlusBInv(Kmat, phicol, variance, n) ==
    [r \in 1..n |-> [c \in 1..n |->
        IF r = c THEN FAdd(Kmat[r][c], BInvPredict(phicol[r], variance))
        ELSE Kmat[r][c]]]

PredictValue(a) ==
    LET n == Len(a.phicol)
        A == KPlusBInv(a.Kmat, a.phicol, a.variance, n)
        s1 == Solve(A, a.Y, n)
        s2 == Solve(A, a.kx, n)
    IN  IF s1.result # "ok"
        THEN [op |-> "predict", result |-> s1.result, mu |-> NaN, va |-> NaN]
        ELSE [op |-> "predict", result |-> "ok",
              mu |-> Dot(a.kx, s1.x, n),
              va |-> FSub(FAdd(a.variance, a.kxx), Dot(a.kx, s2.x, n))]

\* --------------------------------------------------------- the operations
\* __init__, lines 14-30: kernels=None gives K default RBF kernels, else
\* the supplied list is taken as it is; every kernel is linked
Construct ==
    /\ K \in 1..MaxK
    /\ \/ kern = [j \in 1..K |-> [id |-> j, theta |-> "default"]]
       \/ \E n \in 0..MaxK : \E th \in [1..n -> Thetas] :
             kern = [j \in 1..n |-> [id |-> j, theta |-> th[j]]]
    /\ linked = KernIds(kern)
    /\ varGrad = 0
    /\ last = Quiet("__init__", "ok", <<>>)

\* consistent data, a library that decomposes every matrix it is given
Init ==
    /\ Construct
    /\ nY \in 1..MaxN
    /\ nX = nY
    /\ trace \in [1..MaxK -> Contribs]
    /\ faulty = FALSE
    /\ inp = NoArrays
    /\ out = NoArrays

\* the mixture machinery changes the number of components
SetK(k) ==
    /\ k # K
    /\ K' = k
    /\ last' = Quiet("set_K", "ok", <<>>)
    /\ UNCHANGED <<nX, nY, kern, linked, varGrad, trace, faulty, inp, out>>

\* do_computations, lines 43-45: one copy of the last kernel, linked
Grow(ks, ln) ==
    IF Len(ks) < K
    THEN IF Len(ks) = 0
         THEN [kern |-> ks, linked |-> ln, result |-> "IndexError", path |-> <<>>]
         ELSE LET c == KernCopy(ks[Len(ks)], KernIds(ks) \cup ln)
              IN  [kern |-> Append(ks, c), linked |-> ln \cup {c.id},
                   result |-> "ok", path |-> << "grew" >>]
    ELSE [kern |-> ks, linked |-> ln, result |-> "ok", path |-> <<>>]

\* a shrink that drops the excess kernels and leaves them registered
ShrinkKeepingLinks(ks, ln) ==
    IF Len(ks) > K
    THEN [kern |-> SubSeq(ks, 1, K), linked |-> ln,
          result |-> "ok", path |-> << "shrank" >>]
    ELSE [kern |-> ks, linked |-> ln, result |-> "ok", path |-> <<>>]

\* do_computations, lines 47-51: the entries from K on are unlinked and dropped
Shrink(ks, ln) ==
    IF Len(ks) > K
    THEN [kern |-> SubSeq(ks, 1, K),
          linked |-> ln \ {ks[j].id : j \in (K + 1)..Len(ks)},
          result |-> "ok", path |-> << "shrank" >>]
    ELSE [kern |-> ks, linked |-> ln, result |-> "ok", path |-> <<>>]

DoComputations ==
    LET g == Grow(kern, linked)
        s == IF g.result = "ok" THEN Shrink(g.kern, g.linked) ELSE g
    IN  /\ kern' = s.kern
        /\ linked' = s.linked
        /\ last' = Quiet("do_computations", s.result, g.path \o s.path)
        /\ UNCHANGED <<nX, nY, K, varGrad, trace, faulty, inp, out>>

\* update_kern_grads, lines 57-66: the kernel gradients of component i
KernGradSteps(i) ==
    << Call("kern_K", i), Call("phi_col", i),
       Call("K_plus_B_inv", i), Call("cho_factor", i), Call("cho_solve", i),
       Call("K_plus_B_inv", i), Call("pdinv", i),
       Call("update_gradients_full", i) >>

\* update_kern_grads, lines 70-83: the variance gradient, component i
VarGradSteps(i) ==
    << Call("kern_K", i), Call("phi_col", i),
       Call("K_plus_B_inv", i), Call("solve", i),
       Call("K_plus_B_inv", i), Call("pdinv", i),
       Call("phi_col", i), Call("set_variance_gradient", i) >>

UpdateKernGradsSteps ==
    Flatten([i \in 1..Len(kern) |-> KernGradSteps(i)])
        \o Flatten([i \in 1..Len(kern) |-> VarGradSteps(i)])

\* the assignments of line 83 that ran
Assigned(calls) ==
    Cardinality({j \in 1..Len(calls) : calls[j].call = "set_variance_gradient"})

\* line 83 sits inside the loop: each component that completes assigns the
\* running sum (lines 70, 81, 83)
VarianceGradient(old, c, calls) ==
    IF Assigned(calls) = 0 THEN old ELSE SumTo(c, Assigned(calls))

UpdateKernGrads ==
    /\ \E f \in FailPoints(UpdateKernGradsSteps) :
          LET r == Run(UpdateKernGradsSteps, f)
          IN  /\ varGrad' = VarianceGradient(varGrad, trace, r.calls)
              /\ last' = Done("update_kern_grads", r, <<>>)
    /\ UNCHANGED <<nX, nY, K, kern, linked, trace, faulty, inp, out>>

\* parameters_changed, lines 33-36
ParametersChanged ==
    /\ \E f \in FailPoints(UpdateKernGradsSteps) :
          LET r == Run(UpdateKernGradsSteps, f)
          IN  /\ varGrad' = VarianceGradient(varGrad, trace, r.calls)
              /\ last' = Done("parameters_changed", r, <<>>)
    /\ UNCHANGED <<nX, nY, K, kern, linked, trace, faulty, inp, out>>

\* bound, lines 92-107
BoundStepsOf(i) ==
    << Call("kern_K", i), Call("phi_col", i),
       Call("K_plus_B_inv", i), Call("cho_factor", i), Call("cho_solve", i),
       Call("K_plus_B_inv", i), Call("slogdet", i), Call("phi_col", i) >>

BoundSteps ==
    Flatten([i \in 1..Len(kern) |-> BoundStepsOf(i)])
        \o << Call("mixing_prop_bound", 0) >>

Bound ==
    /\ \E f \in FailPoints(BoundSteps) :
          last' = Done("bound", Run(BoundSteps, f), <<>>)
    /\ UNCHANGED <<nX, nY, K, kern, linked, varGrad, trace, faulty, inp, out>>

\* vb_grad_natgrad, lines 114-134
NatgradStepsOf(i) ==
    << Call("kern_K", i), Call("phi_col", i),
       Call("K_plus_B_inv", i), Call("solve", i),
       Call("K_plus_B_inv", i), Call("pdinv", i),
       Call("phi_col", i) >>

NatgradSteps ==
    Flatten([i \in 1..Len(kern) |-> NatgradStepsOf(i)])
        \o << Call("mixing_prop_bound_grad", 0) >>

VbGradNatgrad ==
    /\ \E f \in FailPoints(NatgradSteps) :
          last' = Done("vb_grad_natgrad", Run(NatgradSteps, f), <<>>)
    /\ UNCHANGED <<nX, nY, K, kern, linked, varGrad, trace, faulty, inp, out>>

\* Python's list[i] and array[:, i]: a negative index counts from the end
PyIndex(i, n) == IF i < 0 THEN n + i + 1 ELSE i + 1

\* predict(Xnew, i), lines 139-152; ok: Xnew has X's input dimension
PredictSteps(ok, i) ==
    LET k == PyIndex(i, Len(kern))
    IN  << Call("kern_item", k), Call("kern_K", k),
           [call |-> "kern_K_X_Xnew", comp |-> k, ok |-> ok],
           Call("phi_col", PyIndex(i, K)),
           Call("K_plus_B_inv", k), Call("solve", k),
           [call |-> "kern_K_Xnew_Xnew", comp |-> k, ok |-> ok],
           Call("K_plus_B_inv", k), Call("solve", k) >>

Predict(ok, i) ==
    /\ \E f \in FailPoints(PredictSteps(ok, i)) :
          last' = Done("predict", Run(PredictSteps(ok, i), f), <<ok, i>>)
    /\ UNCHANGED <<nX, nY, K, kern, linked, varGrad, trace, faulty, inp, out>>

\* predict_components(Xnew), lines 156-163
PredictComponentsSteps(ok) ==
    Flatten([j \in 1..Len(kern) |-> PredictSteps(ok, j - 1)])

PredictComponents(ok) ==
    /\ \E f \in FailPoints(PredictComponentsSteps(ok)) :
          last' = Done("predict_components",
                       Run(PredictComponentsSteps(ok), f), <<ok>>)
    /\ UNCHANGED <<nX, nY, K, kern, linked, varGrad, trace, faulty, inp, out>>

Next ==
    \/ \E k \in 0..MaxK : SetK(k)
    \/ DoComputations
    \/ UpdateKernGrads
    \/ ParametersChanged
    \/ Bound
    \/ VbGradNatgrad
    \/ \E ok \in BOOLEAN : \E i \in (-1)..MaxK : Predict(ok, i)
    \/ \E ok \in BOOLEAN : PredictComponents(ok)

Spec == Init /\ [][Next]_vars

\* construction, changes of K and reconciliation alone
InitReg ==
    /\ Construct
    /\ nY = 1
    /\ nX = 1
    /\ trace = [i \in 1..MaxK |-> 1]
    /\ faulty = FALSE
    /\ inp = NoArrays
    /\ out = NoArrays

NextReg ==
    \/ \E k \in 0..MaxK : SetK(k)
    \/ DoComputations

SpecReg == InitReg /\ [][NextReg]_vars

\* the computations, on a reconciled or unreconciled model
NextOps ==
    \/ UpdateKernGrads
    \/ ParametersChanged
    \/ Bound
    \/ VbGradNatgrad
    \/ \E ok \in BOOLEAN : \E i \in (-1)..MaxK : Predict(ok, i)
    \/ \E ok \in BOOLEAN : PredictComponents(ok)

\* a library that may fail to decompose any matrix it is given
InitFaults ==
    /\ Construct
    /\ nY = 1
    /\ nX = 1
    /\ trace = [i \in 1..MaxK |-> 1]
    /\ faulty = TRUE
    /\ inp = NoArrays
    /\ out = NoArrays

SpecFaults == InitFaults /\ [][NextOps]_vars

\* X and Y of any numbers of rows
InitDims ==
    /\ Construct
    /\ nY \in 1..MaxN
    /\ nX \in 1..MaxN
    /\ trace = [i \in 1..MaxK |-> 1]
    /\ faulty = FALSE
    /\ inp = NoArrays
    /\ out = NoArrays

SpecDims == InitDims /\ [][NextOps]_vars

\* ------------------------------------------------ the arithmetic, applied
PhiVals == {Zero, Rat(1, 2), One}
Variances == {One, Rat(2, 1)}
GradVals == {Rat(0 - 1, 1), Rat(2, 1)}
OffDiagonals == {Zero, Rat(1, 2)}
KxVals == {Rat(1, 2), One}
YVals == {Rat(0 - 1, 1), Rat(2, 1)}

\* the rows of phi: non-negative, summing to 1
SimplexRows ==
    {r \in [1..NumComps -> PhiVals] :
        DotTo(r, [i \in 1..NumComps |-> One], NumComps) = One}

PrecisionInputs ==
    {[op |-> "precision", phicol |-> c, variance |-> v] :
        c \in [1..NumPts -> PhiVals], v \in Variances}

NatgradInputs ==
    {[op |-> "natgrad", phi |-> ph, grad_phi |-> g] :
        ph \in [1..NumPts -> SimplexRows],
        g \in [1..NumPts -> [1..NumComps -> GradVals]]}

\* an RBF-like covariance of X: unit diagonal, one off-diagonal value
PredictInputs ==
    {[op |-> "predict", phicol |-> c, variance |-> v,
      Kmat |-> [r \in 1..NumPts |-> [q \in 1..NumPts |-> IF r = q THEN One ELSE o]],
      kx |-> kx, kxx |-> One, Y |-> y] :
        c \in [1..NumPts -> PhiVals], v \in Variances, o \in OffDiagonals,
        kx \in [1..NumPts -> KxVals], y \in [1..NumPts -> YVals]}

InitNum ==
    /\ nX = NumPts
    /\ nY = NumPts
    /\ K = NumComps
    /\ kern = [j \in 1..NumComps |-> [id |-> j, theta |-> "default"]]
    /\ linked = KernIds(kern)
    /\ varGrad = 0
    /\ trace = [i \in 1..MaxK |-> 1]
    /\ faulty = FALSE
    /\ last = Quiet("__init__", "ok", <<>>)
    /\ inp \in PrecisionInputs \cup NatgradInputs \cup PredictInputs
    /\ out = NoArrays

PrecisionOfBound ==
    /\ inp.op = "precision"
    /\ out' = [op |-> "bound", built |-> BInvBound(inp.phicol, inp.variance)]
    /\ UNCHANGED <<objvars, inp>>

PrecisionOfUpdateKernGrads ==
    /\ inp.op = "precision"
    /\ out' = [op |-> "update_kern_grads",
               built |-> BInvUpdateKernGrads(inp.phicol, inp.variance)]
    /\ UNCHANGED <<objvars, inp>>

PrecisionOfVbGradNatgrad ==
    /\ inp.op = "precision"
    /\ out' = [op |-> "vb_grad_natgrad",
               built |-> BInvVbGradNatgrad(inp.phicol, inp.variance)]
    /\ UNCHANGED <<objvars, inp>>

\* vb_grad_natgrad, lines 131-134
ProjectNatgrad ==
    /\ inp.op = "natgrad"
    /\ LET ng == Natgrad(inp.phi, inp.grad_phi, NumComps)
       IN  out' = [op |-> "natgrad", grad |-> Grad(inp.phi, ng, NumComps),
                   natgrad |-> ng]
    /\ UNCHANGED <<objvars, inp>>

PredictAt ==
    /\ inp.op = "predict"
    /\ out' = PredictValue(inp)
    /\ UNCHANGED <<objvars, inp>>

NextNum ==
    \/ PrecisionOfBound
    \/ PrecisionOfUpdateKernGrads
    \/ PrecisionOfVbGradNatgrad
    \/ ProjectNatgrad
    \/ PredictAt

SpecNum == InitNum /\ [][NextNum]_vars

\* ------------------------------------------------------------------ claims
PerComponentOps ==
    {"bound", "update_kern_grads", "parameters_changed", "vb_grad_natgrad",
     "predict", "predict_components"}

\* C1: a single call of do_computations on a non-empty kernel list leaves the
\* list with exactly K entries, whatever the difference was.
C1_ReconcileReachesK ==
    (last.op = "do_computations" /\ last.result = "ok") => Len(kern) = K

\* C2: no per-component computation (bound, update_kern_grads also through
\* parameters_changed, vb_grad_natgrad, predict, predict_components) runs
\* while the kernel list's length differs from K.
C2_NoMismatchedComputation ==
    last.op \in PerComponentOps => Len(kern) = K

\* C3: a second do_computations in a row, K unchanged, changes neither the
\* kernel list nor the registered parameters.
C3_ReconcileIdempotent ==
    [][(last.op = "do_computations" /\ last'.op = "do_computations")
          => (kern' = kern /\ linked' = linked)]_vars

\* C9: after update_kern_grads returns normally the variance gradient is
\* the sum of all components' contributions, whatever it was before.
C9_VarianceGradientIsSum ==
    (last.op \in {"update_kern_grads", "parameters_changed"} /\ last.result = "ok")
        => varGrad = SumTo(trace, Len(kern))

\* C10: the registered kernels are exactly the listed ones; growing appends a
\* registered fresh copy of the last kernel, shrinking drops from the end
\* and deregisters what it drops, the kernels kept keep their order.
RegistrationStep ==
    /\ linked' = KernIds(kern')
    /\ Cardinality(KernIds(kern')) = Len(kern')
    /\ Len(kern') > Len(kern) =>
          /\ last'.op = "do_computations"
          /\ SubSeq(kern', 1, Len(kern)) = kern
          /\ \A j \in (Len(kern) + 1)..Len(kern') :
                /\ kern'[j].theta = kern[Len(kern)].theta
                /\ kern'[j].id \notin (KernIds(kern) \cup linked)
    /\ Len(kern') < Len(kern) =>
          /\ last'.op = "do_computations"
          /\ kern' = SubSeq(kern, 1, Len(kern'))
          /\ linked' = linked \ {kern[j].id : j \in (Len(kern') + 1)..Len(kern)}
    /\ Len(kern') = Len(kern) => (kern' = kern /\ linked' = linked)

C10_Registration ==
    [](linked = KernIds(kern)) /\ [][RegistrationStep]_vars

C10_Witness ==
    /\ last.op = "do_computations"
    /\ last.arg = << "shrank" >>
    /\ Len(kern) = 2
    /\ kern[2].theta = "other"
    /\ linked = {1, 2}

Evaluations ==
    {"kern_K", "kern_K_X_Xnew", "kern_K_Xnew_Xnew", "cho_factor", "cho_solve",
     "solve", "pdinv", "slogdet"}

ShapesInconsistent ==
    \/ nX # nY
    \/ last.op = "predict" /\ (~last.arg[1] \/ last.arg[2] \notin 0..(K - 1))
    \/ last.op = "predict_components" /\ ~last.arg[1]

C6_EagerDimensionCheck ==
    ShapesInconsistent =>
        /\ last.result # "ok"
        /\ \A j \in 1..Len(last.calls) : last.calls[j].call \notin Evaluations

Ones(k) == [i \in 1..k |-> One]

\* C4: for phi with non-negative rows summing to 1 and any grad_phi, every
\* row of the natural gradient has zero dot product with the row of phi, and
\* every row of the ordinary gradient grad = natgrad * phi sums to zero.
C4_SimplexPreserving ==
    out.op = "natgrad" =>
        \A n \in 1..NumPts :
            /\ DotTo(inp.phi[n], out.natgrad[n], NumComps) = Zero
            /\ DotTo(out.grad[n], Ones(NumComps), NumComps) = Zero

C4_Witness ==
    /\ out.op = "natgrad"
    /\ inp.phi[1] = [i \in 1..NumComps |-> IF i <= 2 THEN Rat(1, 2) ELSE Zero]
    /\ inp.grad_phi[1][1] # inp.grad_phi[1][2]
    /\ out.natgrad[1][1] # Zero
    /\ out.grad[1][1] # Zero

ZeroColumn == \A n \in 1..NumPts : IsZero(inp.phicol[n])

\* C5: with phi[n, i] exactly 0 for every n, predict(Xnew, i) raises or
\* returns a non-finite mean or variance, never all-finite values.
C5_DegenerateNotFinite ==
    (out.op = "predict" /\ ZeroColumn) =>
        (out.result # "ok" \/ ~IsFinite(out.mu) \/ ~IsFinite(out.va))

\* C5, amended: with phi[n, i] exactly 0 for every n (finite kernel values,
\* Y and variance), predict(Xnew, i) does not raise and returns the finite
\* prior: mean 0 and variance  variance + k(Xnew, Xnew).
C5_DegenerateReturnsPrior ==
    (out.op = "predict" /\ ZeroColumn) =>
        /\ out.result = "ok"
        /\ out.mu = Zero
        /\ out.va = FAdd(inp.variance, inp.kxx)

C5_Witness ==
    /\ out.op = "predict"
    /\ ZeroColumn
    /\ inp.Kmat[1][NumPts] # Zero
    /\ out.result = "ok"
    /\ IsFinite(out.mu) /\ IsFinite(out.va)

\* C8: bound, update_kern_grads (both loops) and vb_grad_natgrad build every
\* precision entry with the floor, so a phi entry of exactly 0 gives them no
\* division by zero and no non-finite entry.
C8_FloorEverywhere ==
    out.op \in {"bound", "update_kern_grads", "vb_grad_natgrad"} =>
        \A v \in 1..Len(out.built) : \A n \in 1..NumPts : IsFinite(out.built[v][n])

====
